---- MODULE Spec2Model ----
(***************************************************************************)
(* State-machine model of main.py: the leaderboard endpoints              *)
(* (submit_score, get_leaderboard) over the document store, and the       *)
(* /api/download pipeline (download_youtube, run_download, file_iterator) *)
(* over the filesystem.                                                   *)
(***************************************************************************)
EXTENDS Integers, Sequences, FiniteSets, TLC

VARIABLES
    store,      \* the "score" collection: the sequence of stored documents
    resp,       \* the last response of the leaderboard API, with its request
    dirs,       \* the scratch directories that exist on disk
    files,      \* the files that exist on disk, each <<directory, extension>>
    job         \* per download request: the handler's locals and its position

vars == <<store, resp, dirs, files, job>>

(***************************************************************************)
(* Bounds of the model.                                                    *)
(***************************************************************************)
MaxStored == 2
MaxForeign == 1
NumRequests == 1
MaxChunks == 2
NumConcurrent == 2

(***************************************************************************)
(* Python values as they occur in JSON bodies and stored documents.        *)
(***************************************************************************)
IntV(n) == [t |-> "int", n |-> n, s |-> ""]
StrV(x) == [t |-> "str", n |-> 0, s |-> x]
NoneV == [t |-> "none", n |-> 0, s |-> ""]
Missing == [t |-> "missing", n |-> 0, s |-> ""]

Fields == {"name", "points", "level", "duration_ms"}

Doc(name, points, level, duration_ms) ==
    [name |-> name, points |-> points, level |-> level, duration_ms |-> duration_ms]

\* d.get(key, default)
Get(d, key, default) == IF d[key].t = "missing" THEN default ELSE d[key]

\* int(v): an int is itself, a decimal string is parsed, anything else raises
\* (ValueError for a non-numeric string, TypeError for None).
PyInt(v) ==
    CASE v.t = "int" -> [ok |-> TRUE, n |-> v.n]
      [] v.t = "str" /\ v.s = "100" -> [ok |-> TRUE, n |-> 100]
      [] OTHER -> [ok |-> FALSE, n |-> 0]

(***************************************************************************)
(* ScoreIn: the pydantic model of a submission.                            *)
(***************************************************************************)
NameMinLength == 1
NameMaxLength == 20
PointsGe == 0
LevelGe == 1
LevelDefault == 1
DurationGe == 0

NameOk(v) == v.t = "str" /\ Len(v.s) >= NameMinLength /\ Len(v.s) <= NameMaxLength

PointsOkLoose(v) == v.t = "int"
PointsOk(v) == v.t = "int" /\ v.n >= PointsGe

LevelOk(v) == v.t = "missing" \/ (v.t = "int" /\ v.n >= LevelGe)

DurationOk(v) == v.t = "int" /\ v.n >= DurationGe

\* The fields of a payload that fail ScoreIn's validation.
ScoreInErrors(payload) ==
    {f \in Fields :
        \/ f = "name" /\ ~NameOk(payload.name)
        \/ f = "points" /\ ~PointsOk(payload.points)
        \/ f = "level" /\ ~LevelOk(payload.level)
        \/ f = "duration_ms" /\ ~DurationOk(payload.duration_ms)}

\* The validated model: the payload with the level's default filled in.
ScoreIn(payload) ==
    [payload EXCEPT !.level = Get(payload, "level", IntV(LevelDefault))]

(***************************************************************************)
(* The persistence gateway (database.py).                                  *)
(***************************************************************************)
\* create_document("score", payload): stores the document, returns its id.
create_document(docs, doc) == Append(docs, doc)

\* get_documents("score", {}): every stored document, in storage order.
get_documents(docs) == docs

(***************************************************************************)
(* get_leaderboard                                                         *)
(***************************************************************************)
PointsDefault == 0
DurationSortDefault == 1000000
DurationItemDefault == 0

SortKeyAscending(d) ==
    LET p == PyInt(Get(d, "points", IntV(PointsDefault)))
        u == PyInt(Get(d, "duration_ms", IntV(DurationSortDefault)))
    IN  [ok |-> p.ok /\ u.ok, k |-> <<p.n, u.n>>]

\* key=lambda d: (-int(d.get("points", 0)), int(d.get("duration_ms", 1_000_000)))
SortKey(d) ==
    LET p == PyInt(Get(d, "points", IntV(PointsDefault)))
        u == PyInt(Get(d, "duration_ms", IntV(DurationSortDefault)))
    IN  [ok |-> p.ok /\ u.ok, k |-> <<-p.n, u.n>>]

\* Tuple comparison of two keys.
KeyLess(a, b) == a[1] < b[1] \/ (a[1] = b[1] /\ a[2] < b[2])

InsertBeforeEqual(s, x) ==
    LET k == Cardinality({j \in 1..Len(s) : KeyLess(SortKey(s[j]).k, SortKey(x).k)})
    IN  SubSeq(s, 1, k) \o <<x>> \o SubSeq(s, k + 1, Len(s))

\* sorted(): stable, so x goes after every element whose key is not greater.
Insert(s, x) ==
    LET k == Cardinality({j \in 1..Len(s) : ~KeyLess(SortKey(x).k, SortKey(s[j]).k)})
    IN  SubSeq(s, 1, k) \o <<x>> \o SubSeq(s, k + 1, Len(s))

RECURSIVE docs_sorted(_)
docs_sorted(docs) ==
    IF docs = <<>> THEN <<>>
    ELSE Insert(docs_sorted(SubSeq(docs, 1, Len(docs) - 1)), docs[Len(docs)])

Max(a, b) == IF a >= b THEN a ELSE b
Min(a, b) == IF a <= b THEN a ELSE b

\* s[:limit]: a negative limit counts from the end.
Slice(s, limit) ==
    IF limit >= 0 THEN SubSeq(s, 1, Min(limit, Len(s)))
    ELSE SubSeq(s, 1, Max(Len(s) + limit, 0))

ItemSwapped(d) ==
    LET p == PyInt(Get(d, "points", IntV(PointsDefault)))
        l == PyInt(Get(d, "level", IntV(LevelDefault)))
        u == PyInt(Get(d, "duration_ms", IntV(DurationItemDefault)))
    IN  [ok |-> p.ok /\ l.ok /\ u.ok,
         item |-> [name |-> Get(d, "name", StrV("Player")).s,
                   points |-> u.n, level |-> l.n, duration_ms |-> p.n]]

\* One entry of the response, and whether building it raised.
Item(d) ==
    LET p == PyInt(Get(d, "points", IntV(PointsDefault)))
        l == PyInt(Get(d, "level", IntV(LevelDefault)))
        u == PyInt(Get(d, "duration_ms", IntV(DurationItemDefault)))
    IN  [ok |-> p.ok /\ l.ok /\ u.ok,
         item |-> [name |-> Get(d, "name", StrV("Player")).s,
                   points |-> p.n, level |-> l.n, duration_ms |-> u.n]]

NoReq == Doc(Missing, Missing, Missing, Missing)

\* A response of the leaderboard API, with the request it answers,
\* whether the storage call it made, if any, succeeded, and how many
\* storage calls the handler made.
Response(route, req, limit, storage, calls, status, id, errors, items) ==
    [route |-> route, req |-> req, limit |-> limit, storage |-> storage,
     calls |-> calls, status |-> status, id |-> id, errors |-> errors,
     items |-> items]

\* What successive calls of the storage would answer: TRUE for a result,
\* FALSE for an exception.
Outcomes == [{1, 2} -> BOOLEAN]

StorageCallRetry(outcomes) ==
    IF outcomes[1] THEN [ok |-> TRUE, calls |-> 1]
    ELSE [ok |-> outcomes[2], calls |-> 2]

\* try: <one storage call> except Exception as e: raise HTTPException(500)
\* The handler calls the storage once and takes what that call answers.
StorageCall(outcomes) == [ok |-> outcomes[1], calls |-> 1]

\* The body of get_leaderboard: what it returns for a limit, given whether
\* the storage query succeeded.
LeaderboardResult(docs, limit, storageOk) ==
    LET top == Slice(docs_sorted(docs), limit)
    IN  IF ~storageOk THEN [status |-> 500, items |-> <<>>]
        ELSE IF \E i \in 1..Len(docs) : ~SortKey(docs[i]).ok
             THEN [status |-> 500, items |-> <<>>]
        ELSE IF \E i \in 1..Len(top) : ~Item(top[i]).ok
             THEN [status |-> 500, items |-> <<>>]
        ELSE [status |-> 200, items |-> [i \in 1..Len(top) |-> Item(top[i]).item]]

(***************************************************************************)
(* Inputs.                                                                 *)
(***************************************************************************)
Name21 == "ABCDEFGHIJKLMNOPQRSTU"
Names == {StrV(""), StrV("Ana"), StrV("Bo"), StrV(Name21)}
PointsIn == {IntV(-1), IntV(0), IntV(100)}
LevelsIn == {Missing, IntV(0)}
DurationsIn == {IntV(-1), IntV(3000), IntV(5000)}
Payloads ==
    {Doc(n, p, l, u) : n \in Names, p \in PointsIn, l \in LevelsIn, u \in DurationsIn}
Limits == {-1, 0, 1, 2, 20}

\* Documents that reached the store by another path than submit_score.
ForeignDocs ==
    {Doc(StrV("Zed"), p, Missing, u) :
        p \in {Missing, StrV("abc"), StrV("100")},
        u \in {IntV(2000000), Missing, NoneV}}

(***************************************************************************)
(* Actions of the leaderboard API.                                         *)
(***************************************************************************)
\* POST /api/score: FastAPI validates the body against ScoreIn before the
\* handler runs; the handler stores the document or reports a 500.
submit_score(payload) ==
    IF ScoreInErrors(payload) # {}
    THEN /\ resp' = Response("score", payload, 0, "unused", 0, 422, 0,
                              ScoreInErrors(payload), <<>>)
         /\ store' = store
    ELSE \E outcomes \in Outcomes :
            LET c == StorageCall(outcomes)
            IN  IF c.ok
                THEN /\ store' = create_document(store, ScoreIn(payload))
                     /\ resp' = Response("score", payload, 0, "ok", c.calls, 200,
                                          Len(store) + 1, {}, <<>>)
                ELSE /\ store' = store
                     /\ resp' = Response("score", payload, 0, "failed", c.calls, 500,
                                          0, {}, <<>>)

SubmitScore ==
    /\ Len(store) < MaxStored
    /\ \E payload \in Payloads : submit_score(payload)
    /\ UNCHANGED <<dirs, files, job>>

\* GET /api/leaderboard
get_leaderboard(limit, outcomes) ==
    LET c == StorageCall(outcomes)
        r == LeaderboardResult(get_documents(store), limit, c.ok)
    IN  /\ resp' = Response("leaderboard", NoReq, limit,
                             IF c.ok THEN "ok" ELSE "failed", c.calls,
                             r.status, 0, {}, r.items)
        /\ store' = store

GetLeaderboard ==
    /\ \E limit \in Limits, outcomes \in Outcomes : get_leaderboard(limit, outcomes)
    /\ UNCHANGED <<dirs, files, job>>

(***************************************************************************)
(* /api/download: the URL allow-list.                                      *)
(*                                                                         *)
(* A URL is a sequence of tokens; the pattern is matched token by token.   *)
(***************************************************************************)
\* re.IGNORECASE
Lower(tok) ==
    CASE tok = "HTTP://" -> "http://"
      [] tok = "HTTPS://" -> "https://"
      [] tok = "WWW." -> "www."
      [] tok = "YOUTUBE.COM" -> "youtube.com"
      [] tok = "YOUTU.BE" -> "youtu.be"
      [] OTHER -> tok

Schemes == {"http://", "https://"}
Hosts == {"youtube.com", "youtu.be"}

\* "." matches any character but a newline.
Dot(tok) == tok # "\n"

MatchAnyHost(u) ==
    LET i == IF Len(u) >= 1 /\ Lower(u[1]) \in Schemes THEN 2 ELSE 1
        j == IF Len(u) >= i /\ Lower(u[i]) = "www." THEN i + 1 ELSE i
    IN  /\ Len(u) >= j + 2
        /\ u[j + 1] = "/"
        /\ Dot(u[j + 2])

\* YOUTUBE_URL_RE.match(url):
\*   ^(https?://)?(www\.)?(youtube\.com|youtu\.be)/.+
YOUTUBE_URL_RE(u) ==
    LET i == IF Len(u) >= 1 /\ Lower(u[1]) \in Schemes THEN 2 ELSE 1
        j == IF Len(u) >= i /\ Lower(u[i]) = "www." THEN i + 1 ELSE i
    IN  /\ Len(u) >= j + 2
        /\ Lower(u[j]) \in Hosts
        /\ u[j + 1] = "/"
        /\ Dot(u[j + 2])

Urls ==
    { <<"https://", "www.", "youtube.com", "/", "watch">>,
      <<"YOUTU.BE", "/", "watch">>,
      <<"https://", "example.com", "/", "video">>,
      <<"example.com", "/", "youtube.com", "/", "watch">>,
      <<"www.", "https://", "youtube.com", "/", "watch">>,
      <<"ftp://", "youtube.com", "/", "watch">>,
      <<"youtube.com", "/">>,
      <<"youtube.com", "/", "\n">>,
      <<>> }

(***************************************************************************)
(* /api/download: the filesystem and the retrieval engine.                 *)
(***************************************************************************)
Requests == 1..NumRequests
\* The names mkdtemp may hand out: as many as there are requests.
DirNames == DOMAIN job
NoDir == 0
Exts == {"mp4", "webm"}
ChunkSize == 1048576
FileSizes ==
    {0, MaxChunks * ChunkSize} \cup {k * ChunkSize + 1 : k \in 0..(MaxChunks - 1)}
EngineMsgs == {"Video unavailable"}

\* os.path.exists(path)
Exists(d, ext) == <<d, ext>> \in files

\* os.listdir(d)
Entries(fileSet, d) == {f \in fileSet : f[1] = d}

IdleJob ==
    [pc |-> "idle", url |-> <<>>, status |-> 0, detail |-> <<>>, cause |-> "",
     imported |-> FALSE, tmpdir |-> NoDir, made |-> 0, calls |-> 0,
     ext |-> "", flen |-> 0, pos |-> 0,
     reads |-> 0, accepted |-> 0, chunks |-> <<>>,
     cleanups |-> 0, removed |-> "", rmdir |-> "", log |-> <<>>]

\* raise HTTPException(status_code, detail): the request is over.
Raise(j, status, detail, cause) ==
    [j EXCEPT !.pc = "done", !.status = status, !.detail = detail, !.cause = cause]

(***************************************************************************)
(* download_youtube, step by step.                                         *)
(***************************************************************************)
\* if not YOUTUBE_URL_RE.match(url): raise HTTPException(400, ...)
ValidateFrom(r, urls) ==
    /\ job[r].pc = "idle"
    /\ \E u \in urls :
          job' = [job EXCEPT ![r] =
                    IF YOUTUBE_URL_RE(u)
                    THEN [@ EXCEPT !.pc = "import", !.url = u]
                    ELSE Raise([@ EXCEPT !.url = u], 400,
                               <<"Please provide a valid YouTube URL">>, "bad_url")]
    /\ UNCHANGED <<store, resp, dirs, files>>

Validate(r) == ValidateFrom(r, Urls)

ImportEngineIgnored(r) ==
    /\ job[r].pc = "import"
    /\ \E ok \in BOOLEAN :
          job' = [job EXCEPT ![r] = [@ EXCEPT !.pc = "mkdtemp", !.imported = ok]]
    /\ UNCHANGED <<store, resp, dirs, files>>

\* import yt_dlp, or HTTPException(500, "Downloader unavailable: ...")
ImportEngine(r) ==
    /\ job[r].pc = "import"
    /\ \E ok \in BOOLEAN :
          job' = [job EXCEPT ![r] =
                    IF ok
                    THEN [@ EXCEPT !.pc = "mkdtemp", !.imported = TRUE]
                    ELSE Raise(@, 500, <<"Downloader unavailable: ", "ImportError">>,
                               "import_error")]
    /\ UNCHANGED <<store, resp, dirs, files>>

MkdtempShared(r) ==
    /\ job[r].pc = "mkdtemp"
    /\ \E d \in DirNames :
          /\ dirs' = dirs \cup {d}
          /\ job' = [job EXCEPT ![r] =
                       [@ EXCEPT !.pc = "fetch", !.tmpdir = d, !.made = @ + 1]]
    /\ UNCHANGED <<store, resp, files>>

\* tmpdir = tempfile.mkdtemp(prefix="yt_"): a fresh name, or OSError, which
\* nothing catches (the framework answers 500).
Mkdtemp(r) ==
    /\ job[r].pc = "mkdtemp"
    /\ \/ \E d \in DirNames \ dirs :
            /\ dirs' = dirs \cup {d}
            /\ job' = [job EXCEPT ![r] =
                         [@ EXCEPT !.pc = "fetch", !.tmpdir = d, !.made = @ + 1]]
       \/ /\ dirs' = dirs
          /\ job' = [job EXCEPT ![r] =
                       Raise(@, 500, <<"Internal Server Error">>, "mkdtemp_error")]
    /\ UNCHANGED <<store, resp, files>>

\* filepath = ydl.prepare_filename(info), moved to the .mp4 beside it when
\* info's ext is not mp4 and that file exists.
Filepath(fileSet, d, infoExt) ==
    IF infoExt # "mp4" /\ <<d, "mp4">> \in fileSet THEN "mp4" ELSE infoExt

Caught(status, detail) == [status |-> status, detail |-> detail]

HandlerExceptAll500(kind, msg) == Caught(500, <<msg>>)

\* except yt_dlp.utils.DownloadError as e: HTTPException(400, f"Download error: {e}")
\* except Exception as e:                  HTTPException(500, str(e))
HandlerExcept(kind, msg) ==
    IF kind = "DownloadError"
    THEN Caught(400, <<"Download error: ", msg>>)
    ELSE Caught(500, <<msg>>)

\* filepath = run_download(): the engine writes into tmpdir and returns
\* info, or raises.  The two except clauses map what it raises.
RunDownloadFrom(r, sizes) ==
    /\ job[r].pc = "fetch"
    /\ \E written \in SUBSET Exts :
         LET d == job[r].tmpdir
             after == files \cup {<<d, e>> : e \in written}
         IN  /\ files' = after
             /\ \/ \E infoExt \in Exts, n \in sizes :
                      job' = [job EXCEPT ![r] =
                                [@ EXCEPT !.pc = "fetched", !.calls = @ + 1,
                                          !.ext = Filepath(after, d, infoExt),
                                          !.flen = n]]
                \/ \E kind \in {"DownloadError", "Exception"}, msg \in EngineMsgs :
                      LET c == HandlerExcept(kind, msg)
                      IN  job' = [job EXCEPT ![r] =
                                    Raise([@ EXCEPT !.calls = @ + 1],
                                          c.status, c.detail,
                                          IF kind = "DownloadError"
                                          THEN "download_error" ELSE "engine_error")]
    /\ UNCHANGED <<store, resp, dirs>>

RunDownload(r) == RunDownloadFrom(r, FileSizes)

\* str(HTTPException(500, "Failed to download video")), by Starlette version.
MissingDetails == {"500: Failed to download video", ""}

\* if not os.path.exists(filepath): raise HTTPException(500, ...), which the
\* handler's own "except Exception" catches and raises again as a 500;
\* otherwise return StreamingResponse(file_iterator(filepath), ...).
BuildResponse(r) ==
    /\ job[r].pc = "fetched"
    /\ IF Exists(job[r].tmpdir, job[r].ext)
       THEN job' = [job EXCEPT ![r] = [@ EXCEPT !.pc = "responding", !.status = 200]]
       ELSE \E msg \in MissingDetails :
               LET c == HandlerExcept("HTTPException", msg)
               IN  job' = [job EXCEPT ![r] =
                             Raise(@, c.status, c.detail, "missing_file")]
    /\ UNCHANGED <<store, resp, dirs, files>>

(***************************************************************************)
(* file_iterator: the generator behind the StreamingResponse.              *)
(***************************************************************************)
\* The finally block: os.remove(path), then os.rmdir(tmpdir), each in its
\* own try/except.  A removal fails when its target is not there (or, for
\* the directory, not empty), or when the filesystem refuses it.
CleanupStopOnError(j, faultRemove, faultRmdir) ==
    LET d == j.tmpdir
        rmOk == <<d, j.ext>> \in files /\ ~faultRemove
        files1 == IF rmOk THEN files \ {<<d, j.ext>>} ELSE files
        rdOk == rmOk /\ d \in dirs /\ Entries(files1, d) = {} /\ ~faultRmdir
    IN  [files |-> files1,
         dirs |-> IF rdOk THEN dirs \ {d} ELSE dirs,
         job |-> [j EXCEPT !.cleanups = @ + 1,
                           !.removed = IF rmOk THEN "ok" ELSE "failed",
                           !.rmdir = IF rdOk THEN "ok" ELSE
                                     IF rmOk THEN "failed" ELSE "",
                           !.log = IF rmOk THEN <<"remove", "rmdir">>
                                   ELSE <<"remove">>]]

CleanupRecursive(j, faultRemove, faultRmdir) ==
    LET d == j.tmpdir
        rmOk == <<d, j.ext>> \in files /\ ~faultRemove
        rdOk == d \in dirs /\ ~faultRmdir
    IN  [files |-> IF rdOk THEN files \ Entries(files, d)
                   ELSE IF rmOk THEN files \ {<<d, j.ext>>} ELSE files,
         dirs |-> IF rdOk THEN dirs \ {d} ELSE dirs,
         job |-> [j EXCEPT !.cleanups = @ + 1,
                           !.removed = IF rmOk THEN "ok" ELSE "failed",
                           !.rmdir = IF rdOk THEN "ok" ELSE "failed",
                           !.log = <<"remove", "rmtree">>]]

Cleanup(j, faultRemove, faultRmdir) ==
    LET d == j.tmpdir
        rmOk == <<d, j.ext>> \in files /\ ~faultRemove
        files1 == IF rmOk THEN files \ {<<d, j.ext>>} ELSE files
        rdOk == d \in dirs /\ Entries(files1, d) = {} /\ ~faultRmdir
    IN  [files |-> files1,
         dirs |-> IF rdOk THEN dirs \ {d} ELSE dirs,
         job |-> [j EXCEPT !.cleanups = @ + 1,
                           !.removed = IF rmOk THEN "ok" ELSE "failed",
                           !.rmdir = IF rdOk THEN "ok" ELSE "failed",
                           !.log = <<"remove", "rmdir">>]]

ReadLenKiB(flen, pos) == Min(1024, flen - pos)

\* f.read(1024 * 1024) at offset pos of a file of flen bytes
ReadLen(flen, pos) == Min(ChunkSize, flen - pos)

\* Whether the filesystem may refuse a removal whose target is there.
Reliable == {FALSE}
Unreliable == BOOLEAN

ReadChunkAhead(j) ==
    LET n == ReadLen(j.flen, j.pos)
        m == ReadLen(j.flen, j.pos + n)
    IN  [j EXCEPT !.reads = @ + (IF n > 0 /\ m > 0 THEN 2 ELSE 1)]

\* chunk = f.read(1024 * 1024): one read for each turn of the loop.
ReadChunk(j) == [j EXCEPT !.reads = @ + 1]

\* The consumer asks for the next chunk: the generator runs from where it
\* is suspended (its start, or a yield) to its next yield or to its end.
\* Asking for the next chunk is what accepts the chunk yielded before.
Pull(r, Faults) ==
    /\ job[r].pc \in {"responding", "streaming"}
    /\ \E faultRemove \in Faults, faultRmdir \in Faults :
         LET opened == ~(job[r].pc = "responding" /\ ~Exists(job[r].tmpdir, job[r].ext))
             taken == [job[r] EXCEPT !.accepted =
                          IF job[r].pc = "streaming" THEN @ + 1 ELSE @]
             j == IF opened THEN ReadChunk(taken) ELSE taken
             c == Cleanup(j, faultRemove, faultRmdir)
             n == ReadLen(j.flen, j.pos)
         IN  IF j.pc = "responding" /\ ~Exists(j.tmpdir, j.ext)
             THEN \* open() raises; the finally block runs, the stream breaks
                  /\ files' = c.files
                  /\ dirs' = c.dirs
                  /\ job' = [job EXCEPT ![r] = [c.job EXCEPT !.pc = "done",
                                                            !.cause = "open_error"]]
             ELSE IF n = 0
             THEN \* empty read: break, the finally block runs, the stream ends
                  /\ files' = c.files
                  /\ dirs' = c.dirs
                  /\ job' = [job EXCEPT ![r] = [c.job EXCEPT !.pc = "done",
                                                            !.cause = "drained"]]
             ELSE \* yield chunk
                  /\ job' = [job EXCEPT ![r] =
                               [j EXCEPT !.pc = "streaming", !.pos = @ + n,
                                         !.chunks = Append(@, <<j.pos, n>>)]]
                  /\ UNCHANGED <<dirs, files>>
    /\ UNCHANGED <<store, resp>>

\* The caller goes away while the generator is suspended at a yield: the
\* generator is closed, GeneratorExit is raised at the yield and the
\* finally block runs.
Disconnect(r, Faults) ==
    /\ job[r].pc = "streaming"
    /\ \E faultRemove \in Faults, faultRmdir \in Faults :
         LET c == Cleanup(job[r], faultRemove, faultRmdir)
         IN  /\ files' = c.files
             /\ dirs' = c.dirs
             /\ job' = [job EXCEPT ![r] = [c.job EXCEPT !.pc = "done",
                                                       !.cause = "disconnected"]]
    /\ UNCHANGED <<store, resp>>

\* The request ends after the StreamingResponse was returned and before the
\* generator was ever resumed: closing a generator that has not started
\* runs none of its body, the finally block included.
Abandon(r) ==
    /\ job[r].pc = "responding"
    /\ job' = [job EXCEPT ![r] = [@ EXCEPT !.pc = "done", !.cause = "abandoned"]]
    /\ UNCHANGED <<store, resp, dirs, files>>

(***************************************************************************)
(* Specifications.                                                         *)
(***************************************************************************)
NoResponse == Response("none", NoReq, 0, "unused", 0, 0, 0, {}, <<>>)

\* The download pipeline, with every request in flight at once, over a
\* filesystem that refuses no removal whose target is there.
Init ==
    /\ store = <<>>
    /\ resp = NoResponse
    /\ dirs = {}
    /\ files = {}
    /\ job = [r \in Requests |-> IdleJob]

Next ==
    \E r \in Requests :
        \/ Validate(r)
        \/ ImportEngine(r)
        \/ Mkdtemp(r)
        \/ RunDownload(r)
        \/ BuildResponse(r)
        \/ Pull(r, Reliable)
        \/ Disconnect(r, Reliable)
        \/ Abandon(r)

Spec == Init /\ [][Next]_vars

\* The same, over a filesystem that may refuse any removal.
NextFaults ==
    \E r \in Requests :
        \/ Validate(r)
        \/ ImportEngine(r)
        \/ Mkdtemp(r)
        \/ RunDownload(r)
        \/ BuildResponse(r)
        \/ Pull(r, Unreliable)
        \/ Disconnect(r, Unreliable)
        \/ Abandon(r)

SpecFaults == Init /\ [][NextFaults]_vars

\* The leaderboard API over a store that only submit_score has written.
InitScore == Init

NextScore == SubmitScore \/ GetLeaderboard

SpecScore == InitScore /\ [][NextScore]_vars

\* The leaderboard API over a store that already holds documents written
\* by another path.
InitStored ==
    /\ store \in UNION {[1..n -> ForeignDocs] : n \in 0..MaxForeign}
    /\ resp = NoResponse
    /\ dirs = {}
    /\ files = {}
    /\ job = [r \in Requests |-> IdleJob]

SpecStored == InitStored /\ [][NextScore]_vars

\* Both routes of the API.  They share no state, so a reachable state of
\* the whole pairs a reachable state of one route with a reachable state
\* of the other: one route runs while the other rests at its first state.
NextApi ==
    \/ /\ store = <<>>
       /\ resp = NoResponse
       /\ Next
    \/ /\ \A r \in Requests : job[r] = IdleJob
       /\ NextScore

SpecApi == Init /\ [][NextApi]_vars

\* Several download requests in flight at once, each with one of two URLs
\* and, when the engine succeeds, a result file of two chunks.
ConcUrls == {<<"YOUTU.BE", "/", "watch">>, <<"https://", "example.com", "/", "video">>}
ConcSizes == {ChunkSize + 1}

InitConc ==
    /\ store = <<>>
    /\ resp = NoResponse
    /\ dirs = {}
    /\ files = {}
    /\ job = [r \in 1..NumConcurrent |-> IdleJob]

NextConc ==
    \E r \in DOMAIN job :
        \/ ValidateFrom(r, ConcUrls)
        \/ ImportEngine(r)
        \/ Mkdtemp(r)
        \/ RunDownloadFrom(r, ConcSizes)
        \/ BuildResponse(r)
        \/ Pull(r, Reliable)
        \/ Disconnect(r, Reliable)
        \/ Abandon(r)

SpecConc == InitConc /\ [][NextConc]_vars

(***************************************************************************)
(* Properties of the download pipeline.                                    *)
(***************************************************************************)
Finished(r) == job[r].pc = "done"

\* C1: every job that acquired a scratch directory created exactly one and
\* made exactly one cleanup attempt by the time it ended, whatever its
\* terminal state.
C1_OneScratchOneCleanup ==
    \A r \in Requests :
        (Finished(r) /\ job[r].made >= 1) => (job[r].made = 1 /\ job[r].cleanups = 1)

\* C2: once a successful response has been streamed to end-of-file, the
\* job's scratch directory is no longer on disk.
C2_DrainedScratchGone ==
    \A r \in Requests :
        (Finished(r) /\ job[r].status = 200 /\ job[r].cause = "drained")
            => job[r].tmpdir \notin dirs

\* C3: a caller that disconnects after the first chunk and before the last
\* stops the reads, and the cleanup still runs and removes the result file
\* and the scratch directory.
C3_DisconnectCleansUp ==
    \A r \in Requests :
        (Finished(r) /\ job[r].cause = "disconnected"
            /\ job[r].pos > 0 /\ job[r].pos < job[r].flen)
            => /\ job[r].cleanups = 1
               /\ <<job[r].tmpdir, job[r].ext>> \notin files
               /\ job[r].tmpdir \notin dirs

\* C4: no job outlives its request: once a request that created a scratch
\* directory has ended, in whatever way, the directory and everything the
\* job left in it are gone.
C4_NoJobOutlivesRequest ==
    \A r \in Requests :
        (Finished(r) /\ job[r].tmpdir # NoDir)
            => (job[r].tmpdir \notin dirs /\ Entries(files, job[r].tmpdir) = {})

ExampleUrl == <<"https://", "example.com", "/", "video">>

\* C5: a URL outside the allow-list, https://example.com/video among them,
\* ends in a 400 with the engine never loaded or invoked and no scratch
\* directory created.
C5_RejectedWithoutSideEffects ==
    \A r \in Requests :
        (job[r].pc # "idle" /\ (job[r].url = ExampleUrl \/ ~YOUTUBE_URL_RE(job[r].url)))
            => /\ Finished(r)
               /\ job[r].status = 400
               /\ ~job[r].imported
               /\ job[r].calls = 0
               /\ job[r].made = 0
               /\ job[r].tmpdir = NoDir

C5_Witness ==
    \E r \in Requests :
        job[r].url = ExampleUrl /\ job[r].status = 400 /\ job[r].cause = "bad_url"

\* C10: a DownloadError becomes a 400 whose detail carries the engine's
\* message, a failed import a 500, a missing output file a 500, and a
\* response with status 200 is given only when none of these happened.
C10_FailureMapping ==
    \A r \in Requests :
        /\ job[r].cause = "download_error"
              => /\ job[r].status = 400
                 /\ \E i \in 1..Len(job[r].detail) : job[r].detail[i] \in EngineMsgs
        /\ job[r].cause = "import_error" => job[r].status = 500
        /\ job[r].cause = "missing_file" => job[r].status = 500
        /\ job[r].cause \in {"bad_url", "import_error", "mkdtemp_error",
                             "download_error", "engine_error", "missing_file"}
              => (Finished(r) /\ job[r].status \in {400, 500})
        /\ job[r].status = 200
              => (job[r].calls = 1 /\ job[r].ext # "" /\ job[r].cause \in
                    {"", "drained", "disconnected", "abandoned", "open_error"})

C10_Witness ==
    \E r \in Requests :
        /\ job[r].cause = "download_error"
        /\ job[r].status = 400
        /\ job[r].detail = <<"Download error: ", "Video unavailable">>

(***************************************************************************)
(* Properties of the leaderboard API.                                      *)
(***************************************************************************)
LeaderboardOk == resp.route = "leaderboard" /\ resp.status = 200

\* C6: the items of a leaderboard are non-increasing in points and, among
\* equal points, non-decreasing in duration_ms.
C6_LeaderboardOrdered ==
    LeaderboardOk =>
        \A i, j \in 1..Len(resp.items) :
            i < j =>
                /\ resp.items[i].points >= resp.items[j].points
                /\ resp.items[i].points = resp.items[j].points
                      => resp.items[i].duration_ms <= resp.items[j].duration_ms

\* Ana (100 points, 5000 ms) was submitted before Bo (100 points, 3000 ms),
\* and the leaderboard lists Bo before Ana.
C6_Witness ==
    /\ LeaderboardOk
    /\ Len(store) = 2
    /\ store[1].name = StrV("Ana") /\ store[1].duration_ms = IntV(5000)
    /\ store[2].name = StrV("Bo") /\ store[2].duration_ms = IntV(3000)
    /\ store[1].points = IntV(100) /\ store[2].points = IntV(100)
    /\ Len(resp.items) = 2
    /\ resp.items[1].name = "Bo" /\ resp.items[2].name = "Ana"

\* The first k elements of s; none when k is not positive.
Take(s, k) == SubSeq(s, 1, Min(Max(k, 0), Len(s)))

\* C7: a leaderboard holds no more entries than there are stored records,
\* and they are the first min(limit, number of records) entries of the
\* whole sorted sequence, for every limit the endpoint accepts.
C7_TruncatedAfterSort ==
    LeaderboardOk =>
        LET all == docs_sorted(store)
            k == Min(resp.limit, Len(store))
        IN  /\ Len(resp.items) <= Len(store)
            /\ resp.items = [i \in 1..Len(Take(all, k)) |-> Item(all[i]).item]

\* What the bounds of a score record rule out, read off the record itself.
ViolatesBounds(req) ==
    \/ req.name.t # "str" \/ Len(req.name.s) < 1 \/ Len(req.name.s) > 20
    \/ req.points.t # "int" \/ req.points.n < 0
    \/ req.level.t = "int" /\ req.level.n < 1
    \/ req.duration_ms.t # "int" \/ req.duration_ms.n < 0

\* C8: a submission that violates the bounds is answered with a validation
\* failure naming a field, and the stored records stay as they were.
C8_InvalidScoreRejected ==
    [][(resp'.route = "score" /\ ViolatesBounds(resp'.req))
          => (resp'.status = 422 /\ resp'.errors # {} /\ store' = store)]_vars

C8_Witness ==
    /\ resp.route = "score"
    /\ resp.req.points = IntV(-1)
    /\ resp.status = 422
    /\ "points" \in resp.errors

\* C9: whatever the stored records hold in points and duration_ms, missing
\* or non-numeric, a leaderboard query whose storage call succeeded
\* succeeds, and the records are all still returned, as far as the limit
\* allows.
C9_MalformedTolerated ==
    (resp.route = "leaderboard" /\ resp.storage = "ok" /\ resp.limit >= 0)
        => (resp.status = 200 /\ Len(resp.items) = Min(resp.limit, Len(store)))

(***************************************************************************)
(* Calls of the storage and of the engine.                                 *)
(***************************************************************************)
\* C11: nothing is retried: a leaderboard request calls the storage at most
\* once and a download request invokes the engine at most once, and a
\* failure of either is the request's one answer, a 500, or a 400 for a
\* DownloadError.
C11_NoRetries ==
    /\ resp.calls <= 1
    /\ resp.storage \in {"ok", "failed"} => resp.calls = 1
    /\ resp.storage = "failed" => resp.status = 500
    /\ \A r \in Requests :
          /\ job[r].calls <= 1
          /\ job[r].cause = "download_error"
                => (Finished(r) /\ job[r].calls = 1 /\ job[r].status = 400)
          /\ job[r].cause = "engine_error"
                => (Finished(r) /\ job[r].calls = 1 /\ job[r].status = 500)

\* The storage refused a submission, and the handler answered 500 after
\* its one call.
C11_Witness ==
    /\ resp.route = "score"
    /\ resp.storage = "failed"
    /\ resp.calls = 1
    /\ resp.status = 500

(***************************************************************************)
(* What is stored and what is read back.                                   *)
(***************************************************************************)
\* The four values of a stored record, read without any default.
Entry(d) ==
    [name |-> d.name.s, points |-> d.points.n, level |-> d.level.n,
     duration_ms |-> d.duration_ms.n]

\* The four values of a submission, the level being 1 when it is absent.
Submitted(req) ==
    [name |-> req.name.s, points |-> req.points.n,
     level |-> IF req.level.t = "missing" THEN 1 ELSE req.level.n,
     duration_ms |-> req.duration_ms.n]

\* How many elements of s are e.
Count(s, e) == Cardinality({i \in 1..Len(s) : s[i] = e})

StoredEntries == [i \in 1..Len(store) |-> Entry(store[i])]

\* C12: an accepted submission adds exactly one record, holding the
\* submitted values, and changes no other; a leaderboard request changes
\* no record; and a leaderboard whose limit is at least the number of
\* stored records holds one entry, with the submitted values, for each of
\* them.
C12_StoredThenListed ==
    /\ [][/\ (resp'.route = "score" /\ resp'.status = 200)
                => /\ store' = Append(store, store'[Len(store')])
                   /\ Entry(store'[Len(store')]) = Submitted(resp'.req)
          /\ ~(resp'.route = "score" /\ resp'.status = 200) => store' = store]_vars
    /\ []((LeaderboardOk /\ resp.limit >= Len(store))
            => /\ Len(resp.items) = Len(store)
               /\ \A i \in 1..Len(store) :
                     Count(resp.items, Entry(store[i]))
                        = Count(StoredEntries, Entry(store[i])))

\* Bo (0 points, 5000 ms) and then Ana (100 points, 3000 ms) were
\* submitted, and a leaderboard of limit 2 lists both with their values.
C12_Witness ==
    /\ LeaderboardOk
    /\ resp.limit = 2
    /\ Len(store) = 2
    /\ Entry(store[1]) = [name |-> "Bo", points |-> 0, level |-> 1, duration_ms |-> 5000]
    /\ Entry(store[2]) = [name |-> "Ana", points |-> 100, level |-> 1, duration_ms |-> 3000]
    /\ resp.items = <<Entry(store[2]), Entry(store[1])>>

(***************************************************************************)
(* Concurrent download requests.                                           *)
(***************************************************************************)
Live(r) == job[r].pc \notin {"idle", "done"}

\* The job has a scratch directory that it has not removed.
Holds(r) == job[r].tmpdir # NoDir /\ job[r].rmdir # "ok"

\* C13: with several download requests in flight, in any interleaving, two
\* live jobs never have the same scratch directory, a step of one job
\* leaves the directory and the files of every other job as they were, and
\* a cleanup deletes nothing but its own job's result file and directory.
C13_JobsIsolated ==
    /\ [](\A r1, r2 \in DOMAIN job :
            (r1 # r2 /\ Live(r1) /\ Live(r2) /\ Holds(r1) /\ Holds(r2))
                => job[r1].tmpdir # job[r2].tmpdir)
    /\ [][\A r \in DOMAIN job :
            /\ (job'[r] = job[r] /\ Holds(r))
                  => /\ job[r].tmpdir \in dirs'
                     /\ Entries(files', job[r].tmpdir) = Entries(files, job[r].tmpdir)
            /\ job'[r].cleanups # job[r].cleanups
                  => /\ files \ files' \subseteq {<<job[r].tmpdir, job[r].ext>>}
                     /\ dirs \ dirs' \subseteq {job[r].tmpdir}]_vars

\* One job has cleaned up and removed its directory while another, in a
\* different directory, is in the middle of streaming its own file.
C13_Witness ==
    \E r1, r2 \in DOMAIN job :
        /\ r1 # r2
        /\ job[r1].cleanups = 1 /\ job[r1].rmdir = "ok"
        /\ job[r1].tmpdir \notin dirs
        /\ job[r2].pc = "streaming"
        /\ job[r2].tmpdir # job[r1].tmpdir
        /\ job[r2].tmpdir \in dirs
        /\ Exists(job[r2].tmpdir, job[r2].ext)

(***************************************************************************)
(* The stream of chunks.                                                   *)
(***************************************************************************)
\* The number of bytes the chunks of c cover, each chunk being <<offset, length>>.
Covered(c) == IF c = <<>> THEN 0 ELSE c[Len(c)][1] + c[Len(c)][2]

\* C14: the chunks file_iterator yields are the file's bytes in order: each
\* starts where the one before it ended, the first at offset 0; each holds
\* at least one byte and at most 1 MiB; each but the last holds exactly
\* 1 MiB; and the loop ends at the first empty read, when the chunks cover
\* the whole file.
C14_ChunksAreTheFile ==
    \A r \in Requests :
        LET c == job[r].chunks
        IN  /\ \A i \in 1..Len(c) :
                  /\ c[i][2] >= 1
                  /\ c[i][2] <= ChunkSize
                  /\ c[i][1] = IF i = 1 THEN 0 ELSE c[i - 1][1] + c[i - 1][2]
                  /\ i < Len(c) => c[i][2] = ChunkSize
            /\ Covered(c) <= job[r].flen
            /\ job[r].reads <= Len(c) + 1
            /\ job[r].cause = "drained"
                  => (Covered(c) = job[r].flen /\ job[r].reads = Len(c) + 1)

\* A file of 1 MiB and one byte was streamed to its end: two chunks, the
\* second of one byte, and a third read that was empty.
C14_Witness ==
    \E r \in Requests :
        /\ job[r].cause = "drained"
        /\ job[r].flen = ChunkSize + 1
        /\ job[r].chunks = <<<<0, ChunkSize>>, <<ChunkSize, 1>>>>
        /\ job[r].reads = 3

\* C15: the cleanup attempts the removal of the file and then the removal
\* of the directory, the second also when the first failed, and a failure
\* of either changes neither the response nor the way the stream ended.
C15_CleanupBestEffort ==
    \A r \in Requests :
        job[r].cleanups >= 1
            => /\ job[r].log = <<"remove", "rmdir">>
               /\ job[r].removed \in {"ok", "failed"}
               /\ job[r].rmdir \in {"ok", "failed"}
               /\ Finished(r)
               /\ job[r].status = 200
               /\ job[r].detail = <<>>
               /\ job[r].cause \in {"drained", "disconnected", "open_error"}
               /\ job[r].cause = "drained" => Covered(job[r].chunks) = job[r].flen

\* The filesystem refused the removal of the file; the removal of the
\* directory was attempted all the same, and the stream had reached its end.
C15_Witness ==
    \E r \in Requests :
        /\ job[r].cleanups = 1
        /\ job[r].removed = "failed"
        /\ Exists(job[r].tmpdir, job[r].ext)
        /\ job[r].log = <<"remove", "rmdir">>
        /\ job[r].rmdir = "failed"
        /\ job[r].cause = "drained"
        /\ job[r].status = 200

\* C16: the file is read at most one chunk ahead of what the consumer has
\* accepted, and it is not read at all before the engine has returned and
\* the response has been handed over.
C16_ReadsFollowConsumer ==
    \A r \in Requests :
        /\ job[r].reads <= job[r].accepted + 1
        /\ Len(job[r].chunks) <= job[r].accepted + 1
        /\ job[r].reads >= 1
              => /\ job[r].pc \in {"streaming", "done"}
                 /\ job[r].calls = 1
                 /\ job[r].ext # ""
                 /\ job[r].status = 200
        /\ job[r].pc \in {"idle", "import", "mkdtemp", "fetch", "fetched", "responding"}
              => job[r].reads = 0

\* The consumer has accepted the first chunk and asked for the second: two
\* reads, one chunk accepted.
C16_Witness ==
    \E r \in Requests :
        /\ job[r].pc = "streaming"
        /\ job[r].reads = 2
        /\ job[r].accepted = 1
        /\ Len(job[r].chunks) = 2

\* C17: the engine is imported before anything is fetched: when the import
\* fails the request ends in a 500 "Downloader unavailable", with the
\* engine never invoked and no scratch directory created, and no job gets
\* as far as a scratch directory or the engine without the import.
C17_EngineImportedFirst ==
    \A r \in Requests :
        /\ job[r].cause = "import_error"
              => /\ Finished(r)
                 /\ job[r].status = 500
                 /\ job[r].detail[1] = "Downloader unavailable: "
                 /\ ~job[r].imported
                 /\ job[r].calls = 0
                 /\ job[r].made = 0
                 /\ job[r].tmpdir = NoDir
        /\ (\/ job[r].made >= 1
            \/ job[r].calls >= 1
            \/ job[r].pc \in {"mkdtemp", "fetch", "fetched", "responding", "streaming"})
              => job[r].imported

C17_Witness ==
    \E r \in Requests :
        /\ job[r].cause = "import_error"
        /\ job[r].status = 500
        /\ job[r].detail = <<"Downloader unavailable: ", "ImportError">>
        /\ dirs = {}

(***************************************************************************)
(* The order of the leaderboard, read from its own items.                  *)
(***************************************************************************)
\* C18: whatever the store holds, records without points or without
\* duration_ms among it, each item of a leaderboard has more points than
\* the item after it, or the same points and a duration_ms that is not
\* greater.
C18_ProjectedOrderConsistent ==
    LeaderboardOk =>
        \A i \in 1..(Len(resp.items) - 1) :
            \/ resp.items[i].points > resp.items[i + 1].points
            \/ /\ resp.items[i].points = resp.items[i + 1].points
               /\ resp.items[i].duration_ms <= resp.items[i + 1].duration_ms

\* Whether s is the beginning of t.
IsPrefix(s, t) == Len(s) <= Len(t) /\ s = SubSeq(t, 1, Len(s))

\* C19: records with the same points and the same duration_ms are listed
\* in the order the store returned them: for each pair of values, the
\* items with those values are, in order, the first of the stored records
\* with those values.  With C6 this leaves one possible sequence of items
\* for a store and a limit.
C19_TiesKeepStorageOrder ==
    LeaderboardOk =>
        \A i \in 1..Len(store) :
            LET Tied(e) == /\ e.points = Entry(store[i]).points
                           /\ e.duration_ms = Entry(store[i]).duration_ms
            IN  IsPrefix(SelectSeq(resp.items, Tied), SelectSeq(StoredEntries, Tied))

\* Bo and then Ana were submitted, both with 100 points and 3000 ms, and
\* the leaderboard lists Bo before Ana.
C19_Witness ==
    /\ LeaderboardOk
    /\ Len(store) = 2
    /\ Entry(store[1]) = [name |-> "Bo", points |-> 100, level |-> 1, duration_ms |-> 3000]
    /\ Entry(store[2]) = [name |-> "Ana", points |-> 100, level |-> 1, duration_ms |-> 3000]
    /\ resp.items = StoredEntries

(***************************************************************************)
(* What the cleanup leaves behind.                                         *)
(***************************************************************************)
\* C20: a cleanup deletes the result file and no other file, and then
\* removes the scratch directory exactly when the result file was its only
\* entry; when the engine left another file there the directory stays, and
\* the response is not affected.
C20_CleanupRemovesOnlyResult ==
    [][\A r \in Requests :
          job'[r].cleanups = job[r].cleanups + 1
              => LET d == job[r].tmpdir
                     result == <<d, job[r].ext>>
                     alone == Entries(files, d) \subseteq {result}
                 IN  /\ files' = files \ {result}
                     /\ dirs \ dirs' \subseteq {d}
                     /\ dirs' \subseteq dirs
                     /\ d \notin dirs' <=> alone
                     /\ ~alone => /\ job'[r].rmdir = "failed"
                                  /\ job'[r].status = 200
                                  /\ job'[r].detail = <<>>]_vars

\* The engine left a .webm beside the .mp4 it reported: the cleanup removed
\* the .mp4, and the directory and the .webm are still there.
C20_Witness ==
    \E r \in Requests :
        /\ job[r].cleanups = 1
        /\ job[r].ext = "mp4"
        /\ job[r].removed = "ok"
        /\ job[r].rmdir = "failed"
        /\ job[r].tmpdir \in dirs
        /\ Entries(files, job[r].tmpdir) = {<<job[r].tmpdir, "webm">>}

====
